---------------------------- MODULE Spec2Model ----------------------------
(***************************************************************************)
(* Model of etl_dreams_v2.py: collectors -> merge -> dedup -> symbol       *)
(* buckets -> synthesis -> sort -> the two output files.                   *)
(*                                                                         *)
(* A Python str is modelled as its run-length encoding: a sequence of runs *)
(* [c |-> character, n |-> repetitions], adjacent runs having different    *)
(* characters, so that len(), slicing, re.sub and == are computed on the   *)
(* real string without enumerating hundreds of characters.                 *)
(***************************************************************************)
EXTENDS Integers, Sequences, FiniteSets, TLC

VARIABLES
    cfg,        \* scfg: how many collector calls main makes per provider key
    env,        \* os.environ as the run sees it
    prev,       \* content of the two output files before the run
    pc,         \* main's position
    idx,        \* position in the provider list main is iterating over
    calls,      \* collector calls main has made so far, per key
    raw,        \* main's `raw`
    merged,     \* `raw` as it was when collection ended (line 424)
    lastcall,   \* the collector call of the step just taken: what the provider
                \* sent, `raw` before it and the network operations of the
                \* call; NoCall after any other step
    buckets,    \* main's `buckets` (insertion-ordered dict)
    llm_fail,   \* symbols whose generative-provider call raised
    curated,    \* main's `curated`
    files,      \* the two output files
    wpos,       \* rows of `curated` the write in progress has written
    exit_code,  \* the process exit status, -1 until the run ends
    fault,      \* what is wrong with the configuration file, if anything
    site,       \* the owner's site: the links of each page
    queue,      \* collect_owner_site's `q`
    qi,         \* position of its `for href in q` loop
    seen,       \* its `seen`
    fetched,    \* the URLs it has called safe_get on, in order
    orows,      \* its `rows`, as the URLs of the pages kept
    opc         \* its position

\* the local state of collect_owner_site, followed step by step
crawl == <<site, queue, qi, seen, fetched, orows, opc>>

vars == <<cfg, env, prev, pc, idx, calls, raw, merged, lastcall, buckets,
          llm_fail, curated, files, wpos, exit_code, fault, site, queue, qi, seen,
          fetched, orows, opc>>

-----------------------------------------------------------------------------
(* Bounds of the model *)

\* collector calls one configuration makes, over all providers
MaxCalls == 2
\* items (pages, lines, rows, entries, posts) one provider response holds
MaxItems == 2
\* links one page of the owner's site holds
MaxLinks == 2

-----------------------------------------------------------------------------
(* Strings *)

Run(c, n) == [c |-> c, n |-> n]

\* the characters of the model: the lower case letters stand for what a text
\* holds as the fuzzy matcher sees it (see partial_ratio), "V" is an upper
\* case letter, the rest are white space and the ellipsis shorten appends
Letters == {"v", "o", "t", "l", "x", "V"}
Spaces == {" ", "TAB", "NL"}
Ellipsis == "ELLIPSIS"

RECURSIVE StrLen(_)
StrLen(s) == IF s = <<>> THEN 0 ELSE Head(s).n + StrLen(Tail(s))

\* s + t
Concat(s, t) ==
    IF s = <<>> THEN t
    ELSE IF t = <<>> THEN s
    ELSE IF s[Len(s)].c = t[1].c
         THEN SubSeq(s, 1, Len(s) - 1)
              \o <<Run(t[1].c, s[Len(s)].n + t[1].n)>> \o Tail(t)
         ELSE s \o t

\* s[:k]
RECURSIVE Take(_, _)
Take(s, k) ==
    IF k <= 0 \/ s = <<>> THEN <<>>
    ELSE IF Head(s).n >= k THEN <<Run(Head(s).c, k)>>
    ELSE <<Head(s)>> \o Take(Tail(s), k - Head(s).n)

\* re.sub(r'\s+', ' ', s)
RECURSIVE CollapseSpaces(_)
CollapseSpaces(s) ==
    IF s = <<>> THEN <<>>
    ELSE IF Head(s).c \in Spaces
         THEN LET rest == CollapseSpaces(Tail(s))
              IN  IF rest # <<>> /\ Head(rest).c = " " THEN rest
                  ELSE <<Run(" ", 1)>> \o rest
         ELSE <<Head(s)>> \o CollapseSpaces(Tail(s))

\* s.strip()
RECURSIVE Strip(_)
Strip(s) ==
    IF s = <<>> THEN <<>>
    ELSE IF Head(s).c \in Spaces THEN Strip(Tail(s))
    ELSE IF s[Len(s)].c \in Spaces THEN Strip(SubSeq(s, 1, Len(s) - 1))
    ELSE s

\* re.sub(r'\s+', ' ', s or '').strip(), then s or s[:n-1] + "…"
shorten(s, n) ==
    LET t == Strip(CollapseSpaces(s))
    IN  IF StrLen(t) <= n THEN t ELSE Concat(Take(t, n - 1), <<Run(Ellipsis, 1)>>)

\* str.lower()
RECURSIVE Lower(_)
Lower(s) ==
    IF s = <<>> THEN <<>>
    ELSE Concat(<<Run(IF Head(s).c = "V" THEN "v" ELSE Head(s).c, Head(s).n)>>,
                Lower(Tail(s)))

\* the characters re.findall's class [a-z...\-] accepts, after lower()
IsWordChar(c) == c \in Letters

\* re.findall(r'[a-z...\-]{5,}', body): the maximal runs of word characters
\* that are at least 5 long, left to right
RECURSIVE FindWords(_, _, _)
FindWords(s, cur, acc) ==
    LET flushed == IF StrLen(cur) >= 5 THEN Append(acc, cur) ELSE acc
    IN  IF s = <<>> THEN flushed
        ELSE IF IsWordChar(Head(s).c)
             THEN FindWords(Tail(s), Concat(cur, <<Head(s)>>), acc)
             ELSE FindWords(Tail(s), <<>>, flushed)

\* the keys of `freq` in insertion order
RECURSIVE FirstSeen(_, _)
FirstSeen(ws, acc) ==
    IF ws = <<>> THEN acc
    ELSE FirstSeen(Tail(ws),
                   IF \E i \in 1..Len(acc) : acc[i] = Head(ws) THEN acc
                   ELSE Append(acc, Head(ws)))

CountOf(w, ws) == Cardinality({i \in 1..Len(ws) : ws[i] = w})

\* sorted(freq.items(), key=lambda x: -x[1]): a stable sort, so among equal
\* counts the word seen first comes first
RECURSIVE ByCountDesc(_, _)
ByCountDesc(keys, ws) ==
    IF keys = <<>> THEN <<>>
    ELSE LET top == CHOOSE i \in 1..Len(keys) :
                      /\ \A j \in 1..Len(keys) :
                            CountOf(keys[j], ws) <= CountOf(keys[i], ws)
                      /\ \A j \in 1..(i - 1) :
                            CountOf(keys[j], ws) < CountOf(keys[i], ws)
         IN  <<keys[top]>>
             \o ByCountDesc(SubSeq(keys, 1, top - 1)
                            \o SubSeq(keys, top + 1, Len(keys)), ws)

pick_contexts(text, k) ==
    LET words == FindWords(Lower(text), <<>>, <<>>)
        ranked == ByCountDesc(FirstSeen(words, <<>>), words)
    IN  SubSeq(ranked, 1, IF Len(ranked) < k THEN Len(ranked) ELSE k)

\* " ".join(ts)
RECURSIVE JoinSpace(_)
JoinSpace(ts) ==
    IF ts = <<>> THEN <<>>
    ELSE IF Len(ts) = 1 THEN ts[1]
    ELSE Concat(Concat(ts[1], <<Run(" ", 1)>>), JoinSpace(Tail(ts)))

-----------------------------------------------------------------------------
(* Symbol matching *)

\* each symbol is its sequence of code points, which is what Python's str
\* comparison orders by
BASE_SYMBOLS == <<
    <<1074, 1086, 1076, 1072>>,                          \* 1 voda
    <<1086, 1075, 1086, 1085, 1100>>,                    \* 2 ogon'
    <<1087, 1072, 1076, 1077, 1085, 1080, 1077>>,        \* 3 padenie
    <<1087, 1086, 1083, 1105, 1090>>,                    \* 4 polyot
    <<1087, 1086, 1075, 1086, 1085, 1103>>,              \* 5 pogonya
    <<1076, 1074, 1077, 1088, 1100>>,                    \* 6 dver'
    <<1086, 1082, 1085, 1086>>,                          \* 7 okno
    <<1083, 1077, 1089, 1090, 1085, 1080, 1094, 1072>>,  \* 8 lestnitsa
    <<1084, 1072, 1096, 1080, 1085, 1072>>,              \* 9 mashina
    <<1087, 1086, 1077, 1079, 1076>>,                    \* 10 poezd
    <<1089, 1072, 1084, 1086, 1083, 1105, 1090>>,        \* 11 samolyot
    <<1088, 1077, 1073, 1105, 1085, 1086, 1082>>,        \* 12 rebyonok
    <<1088, 1086, 1076, 1080, 1090, 1077, 1083, 1080>>,  \* 13 roditeli
    <<1076, 1086, 1084>>,                                \* 14 dom
    <<1087, 1086, 1076, 1074, 1072, 1083>>,              \* 15 podval
    <<1079, 1077, 1088, 1082, 1072, 1083, 1086>>,        \* 16 zerkalo
    <<1089, 1086, 1073, 1072, 1082, 1072>>,              \* 17 sobaka
    <<1082, 1086, 1096, 1082, 1072>>,                    \* 18 koshka
    <<1079, 1084, 1077, 1103>>,                          \* 19 zmeya
    <<1088, 1099, 1073, 1072>>,                          \* 20 ryba
    <<1087, 1090, 1080, 1094, 1072>>,                    \* 21 ptitsa
    <<1082, 1088, 1086, 1074, 1100>>,                    \* 22 krov'
    <<1073, 1086, 1083, 1077, 1079, 1085, 1100>>,        \* 23 bolezn'
    <<1082, 1086, 1083, 1100, 1094, 1086>>,              \* 24 kol'tso
    <<1076, 1077, 1085, 1100, 1075, 1080>> >>            \* 25 den'gi

Chars(s) == {s[i].c : i \in 1..Len(s)}

\* rapidfuzz's fuzz.partial_ratio(text, symbol), a library function of the two
\* strings with values in 0..100.  The library is not part of the repository;
\* the model fixes its value by what the text holds: a text with "v" holds
\* symbol 1 verbatim, one with "o" a near spelling of symbol 2, one with "t"
\* something equally near symbols 1 and 2, one with "l" something just too
\* far from symbol 1, and the other characters resemble no symbol.
partial_ratio(text, symbol) ==
    LET has == Chars(text)
    IN  IF symbol = BASE_SYMBOLS[1]
        THEN IF "v" \in has THEN 100
             ELSE IF "t" \in has THEN 75
             ELSE IF "l" \in has THEN 69
             ELSE 0
        ELSE IF symbol = BASE_SYMBOLS[2]
        THEN IF "o" \in has THEN 85
             ELSE IF "t" \in has THEN 75
             ELSE 0
        ELSE 0

\* process.extractOne(text, BASE_SYMBOLS, scorer=fuzz.partial_ratio): the
\* choice with the highest score, the earliest one among equals
extractOne(text) ==
    LET score == [i \in 1..Len(BASE_SYMBOLS) |-> partial_ratio(text, BASE_SYMBOLS[i])]
        best == CHOOSE i \in 1..Len(BASE_SYMBOLS) :
                  /\ \A j \in 1..Len(BASE_SYMBOLS) : score[j] <= score[i]
                  /\ \A j \in 1..(i - 1) : score[j] < score[i]
    IN  <<BASE_SYMBOLS[best], score[best]>>

extract_all_above_threshold(text) ==
    SelectSeq(BASE_SYMBOLS, LAMBDA s : partial_ratio(text, s) >= 70)

extract_symbol_candidates(text) ==
    LET best == extractOne(text)
    IN  IF best[2] >= 70 THEN <<best[1]>> ELSE <<>>

\* buckets.setdefault(s, []).append(r) on an insertion-ordered dict, kept as
\* a sequence of [symbol, reports]
SetDefaultAppend(bs, s, r) ==
    IF \E i \in 1..Len(bs) : bs[i].symbol = s
    THEN [i \in 1..Len(bs) |->
            IF bs[i].symbol = s
            THEN [bs[i] EXCEPT !.reports = Append(@, r)] ELSE bs[i]]
    ELSE Append(bs, [symbol |-> s, reports |-> <<r>>])

RECURSIVE AddToBuckets(_, _, _)
AddToBuckets(bs, syms, r) ==
    IF syms = <<>> THEN bs
    ELSE AddToBuckets(SetDefaultAppend(bs, Head(syms), r), Tail(syms), r)

RECURSIVE GroupFrom(_, _)
GroupFrom(bs, rows) ==
    IF rows = <<>> THEN bs
    ELSE GroupFrom(AddToBuckets(bs, extract_symbol_candidates(Head(rows).text),
                                Head(rows)),
                   Tail(rows))

group_by_symbol(raw_rows) == GroupFrom(<<>>, raw_rows)

-----------------------------------------------------------------------------
(* What the providers send *)

Txt(c, n) == <<Run(c, n)>>

\* a string literal of the code, kept whole as one run of its length
Lit(name, n) == <<Run(name, n)>>
\* a URL, which the code only copies: what it points at and a number
Url(what, n) == <<what, n>>

\* a record a provider sends; `raise` stands for an item whose fetch or
\* parse raises an exception
Item(text) == [k |-> "item", text |-> text, title |-> Txt("x", 8), sym |-> ""]
\* a record with a title of its own
Titled(text, title) == [k |-> "item", text |-> text, title |-> title, sym |-> ""]
SheetRow(text, sym) == [k |-> "item", text |-> text, title |-> <<>>, sym |-> sym]
RaiseEv == [k |-> "raise"]

\* the records each provider may send, some with a title of 120 characters
\* or more: texts on both sides of the length the
\* collector filters by, and for rss texts that agree up to white space or up
\* to their first 159 or 160 characters
Cands(c) ==
    CASE c = "dreambank" ->
            {Item(Txt("x", 399)), Titled(Txt("v", 400), Txt("x", 130))}
      [] c = "sddb" ->
            {Item(Txt("v", 120)), Titled(Txt("o", 121), Txt("x", 130))}
      [] c = "dryad" -> {Item(Txt("v", 120)), Item(Txt("l", 121))}
      [] c = "donders" -> {Item(Txt("v", 120)), Item(Txt("o", 121))}
      [] c = "rss" ->
            {Titled(Txt("v", 160), Txt("x", 120)),
             Titled(Txt("v", 161), Txt("x", 121)),
             Item(<<Run("v", 159), Run("o", 2)>>),
             Item(<<Run("v", 101), Run(" ", 1), Run("V", 58)>>),
             Item(<<Run("v", 101), Run(" ", 2), Run("V", 58)>>)}
      [] c = "gsheet" ->
            {SheetRow(Txt("o", 59), ""), SheetRow(Txt("o", 60), ""),
             SheetRow(<<>>, "s")}
      [] c = "reddit" ->
            {Item(Txt("o", 159)), Titled(Txt("t", 160), Txt("x", 130)),
             Item(Txt("t", 1201))}
      [] c = "hf" -> {Item(Txt("x", 120)), Item(Txt("t", 121))}
      [] c = "owner" ->
            {Item(Txt("v", 300)), Titled(Txt("o", 301), Txt("x", 130))}

\* the whole text of a file figshare serves, which collect_donders falls back on
FileTexts == {Txt("x", 200), Txt("v", 201)}

SeqsUpTo(S, m) == UNION {[1..n -> S] : n \in 0..m}

\* the items a loop with no handler of its own sees: the loop ends at the
\* first exception, so an exception is the last one
EndRaiseSeqs(c, m) ==
    SeqsUpTo(Cands(c), m)
    \cup (IF m > 0 THEN {Append(q, RaiseEv) : q \in SeqsUpTo(Cands(c), m - 1)}
          ELSE {})

\* the items a loop that catches per item sees: an exception anywhere
AnyRaiseSeqs(c, m) == SeqsUpTo(Cands(c) \cup {RaiseEv}, m)

\* the files, links or datasets of one response
Units(c, m) ==
    CASE c = "sddb" ->
            {[k |-> "dlfail", evs |-> <<>>], [k |-> "csv_empty", evs |-> <<>>],
             [k |-> "csv_nohdr", evs |-> <<>>]}
            \cup {[k |-> "csv", evs |-> q] : q \in EndRaiseSeqs(c, m) \ {<<>>}}
            \cup {[k |-> "jsonl", evs |-> q] : q \in AnyRaiseSeqs(c, m) \ {<<>>}}
            \cup {[k |-> "jsondoc", evs |-> q] : q \in EndRaiseSeqs(c, m) \ {<<>>}}
      [] c = "donders" ->
            {[k |-> "dlfail", evs |-> <<>>, txt |-> <<>>],
             [k |-> "empty", evs |-> <<>>, txt |-> <<>>]}
            \cup {[k |-> "plain", evs |-> <<>>, txt |-> t] : t \in FileTexts}
            \cup {[k |-> "csv", evs |-> q, txt |-> t] :
                    q \in EndRaiseSeqs(c, m) \ {<<>>}, t \in FileTexts}
      [] OTHER ->
            {[k |-> "unit", evs |-> q] : q \in EndRaiseSeqs(c, m)}

UnitCost(u) == IF u.evs = <<>> THEN 1 ELSE Len(u.evs)

\* a unit at which the collector stops: it raises out of the loop over the
\* units, or returns
Stops(c, u) ==
    \/ u.k \in {"dlfail", "csv_empty", "csv_nohdr"}
    \/ c = "sddb" /\ u.k = "csv" /\ u.evs[Len(u.evs)] = RaiseEv

\* the units of one response, `budget` items in all (a unit with no item
\* counting as one); none follows a unit at which the collector stops
RECURSIVE UnitSeqs(_, _)
UnitSeqs(c, budget) ==
    {<<>>} \cup
    UNION {{<<u>> \o rest :
              rest \in IF Stops(c, u) THEN {<<>>}
                       ELSE UnitSeqs(c, budget - UnitCost(u))} :
             u \in {v \in Units(c, budget) : UnitCost(v) <= budget}}

\* what a provider may send to one collector call: `ok` is whether the first
\* request (or the import of the client library) succeeds
Responses(c) ==
    {[ok |-> FALSE, evs |-> <<>>, units |-> <<>>]} \cup
    CASE c \in {"dreambank", "owner"} ->
            {[ok |-> TRUE, evs |-> q, units |-> <<>>] : q \in AnyRaiseSeqs(c, MaxItems)}
      [] c \in {"rss", "gsheet", "reddit"} ->
            {[ok |-> TRUE, evs |-> q, units |-> <<>>] : q \in EndRaiseSeqs(c, MaxItems)}
      [] OTHER ->
            {[ok |-> TRUE, evs |-> <<>>, units |-> q] : q \in UnitSeqs(c, MaxItems)}

-----------------------------------------------------------------------------
(* Collectors *)

\* one element of `rows`; the fields no later stage reads (id, date, tags)
\* are left out
Row(source, url, title, text, license) ==
    [source |-> source, url |-> url, title |-> title, text |-> text,
     license |-> license]

\* the outcome of a block of Python code that appends to `rows`: the list as
\* the block left it, and whether the block ended by raising
Ok(rows) == [rows |-> rows, raised |-> FALSE]
Raised(rows) == [rows |-> rows, raised |-> TRUE]
\* try: <block> except Exception: <log, pass or continue>
Except(r) == Ok(r.rows)

\* a filter on the length of the text alone, strict for every provider
KeepsLongerThanThreshold(c, e) ==
    CASE c = "dreambank" -> StrLen(e.text) > 400
      [] c \in {"sddb", "sddb_csv"} -> StrLen(e.text) > 120
      [] c = "dryad" -> StrLen(e.text) > 120
      [] c = "donders" -> StrLen(e.text) > 120
      [] c = "rss" -> StrLen(e.text) > 160
      [] c = "gsheet" -> StrLen(e.text) > 60
      [] c = "reddit" -> StrLen(Strip(e.text)) > 160
      [] c = "hf" -> StrLen(e.text) > 120
      [] c = "owner" -> StrLen(e.text) > 300

\* the length test of each collector
Keeps(c, e) ==
    CASE c = "dreambank" -> ~(StrLen(e.text) < 400)
      [] c \in {"sddb", "sddb_csv"} -> StrLen(e.text) > 120
      [] c = "dryad" -> StrLen(e.text) > 120
      [] c = "donders" -> StrLen(e.text) > 120
      [] c = "rss" -> ~(StrLen(e.text) < 160)
      [] c = "gsheet" -> ~(StrLen(e.text) < 60 /\ e.sym = "")
      [] c = "reddit" -> ~(StrLen(Strip(e.text)) < 160)
      [] c = "hf" -> StrLen(e.text) > 120
      [] c = "owner" -> StrLen(e.text) > 300

\* the row each collector appends for a record it keeps
MakeRow(c, url, lic, e) ==
    CASE c = "dreambank" -> Row(c, url, e.title, e.text, "public-website")
      [] c = "sddb" -> Row("sddb", Url("sleepanddreamdatabase.org", 0),
                           shorten(e.title, 120), e.text, "as-provided")
      [] c = "sddb_csv" -> Row("sddb", Url("sleepanddreamdatabase.org", 0),
                               Lit("SDDb report", 11), e.text, "as-provided")
      [] c = "dryad" -> Row(c, url, Lit("Dryad dream report", 18), e.text,
                            "as-provided")
      [] c = "donders" -> Row(c, url, Lit("Donders dream-related", 21), e.text,
                              "as-provided")
      [] c = "rss" -> Row(c, url, shorten(e.title, 120), e.text, lic)
      [] c = "gsheet" -> Row(c, url, Lit("Sheet row", 9), e.text, lic)
      [] c = "reddit" -> Row(c, url, shorten(e.title, 120),
                             Take(Strip(e.text), 1200), "reddit-terms")
      [] c = "hf" -> Row(c, url, Lit("HF dataset row", 14), e.text, "dataset-terms")
      [] c = "owner" -> Row(c, url, shorten(e.title, 120), e.text, "by-owner")

\* for e in evs: <test, append>, no handler inside the loop: the first
\* exception leaves the loop
RECURSIVE Loop(_, _, _, _, _)
Loop(c, url, lic, rows, evs) ==
    IF evs = <<>> THEN Ok(rows)
    ELSE IF Head(evs).k = "raise" THEN Raised(rows)
    ELSE Loop(c, url, lic,
              IF Keeps(c, Head(evs)) THEN Append(rows, MakeRow(c, url, lic, Head(evs)))
              ELSE rows,
              Tail(evs))

\* for e in evs: try: <fetch, test, append> except Exception: <skip>
RECURSIVE LoopCatching(_, _, _, _, _)
LoopCatching(c, url, lic, rows, evs) ==
    IF evs = <<>> THEN Ok(rows)
    ELSE LoopCatching(c, url, lic,
                      Except(Loop(c, url, lic, rows, <<Head(evs)>>)).rows,
                      Tail(evs))

\* links[:int(limit)]
Limit(q, limit) == SubSeq(q, 1, IF Len(q) < limit THEN Len(q) ELSE limit)

collect_dreambank(limit, resp) ==
    Except(IF ~resp.ok THEN Raised(<<>>)
           ELSE LoopCatching("dreambank", Url("dreambank.net", 1), "",
                             <<>>, Limit(resp.evs, limit)))

\* the loop over the files of the Zenodo record; `return rows` inside it
\* ends the collector.  A "jsonl" file is read line by line, each line in its
\* own try; a "jsondoc" file is one on which every line fails and json.loads
\* of the whole text gives the records, in one try
RECURSIVE SddbFiles(_, _)
SddbFiles(rows, fs) ==
    IF fs = <<>> THEN Ok(rows)
    ELSE LET f == Head(fs)
         IN  CASE f.k = "dlfail" -> Raised(rows)
               [] f.k = "jsonl" ->
                    SddbFiles(LoopCatching("sddb", Url("", 0), "", rows, f.evs).rows, Tail(fs))
               [] f.k = "jsondoc" ->
                    SddbFiles(Except(Loop("sddb", Url("", 0), "", rows, f.evs)).rows, Tail(fs))
               [] f.k \in {"csv_empty", "csv_nohdr"} -> Ok(rows)
               [] f.k = "csv" ->
                    LET r == Loop("sddb_csv", Url("", 0), "", rows, f.evs)
                    IN  IF r.raised THEN r ELSE SddbFiles(r.rows, Tail(fs))

collect_sddb_zenodo(resp) ==
    Except(IF ~resp.ok THEN Raised(<<>>) ELSE SddbFiles(<<>>, resp.units))

\* the loop over the links of the Dryad page, each in its own try
RECURSIVE DryadLinks(_, _)
DryadLinks(rows, ls) ==
    IF ls = <<>> THEN Ok(rows)
    ELSE DryadLinks(Except(Loop("dryad", Url("datadryad.org", 1), "",
                                rows, Head(ls).evs)).rows,
                    Tail(ls))

collect_dryad(resp) ==
    Except(IF ~resp.ok THEN Raised(<<>>) ELSE DryadLinks(<<>>, resp.units))

\* the plain-text row of collect_donders
PlainText(rows, txt) ==
    IF StrLen(txt) > 200
    THEN Append(rows, Row("donders", Url("figshare.com", 1),
                          Lit("Donders dream-related", 21), txt, "as-provided"))
    ELSE rows

RECURSIVE DondersFiles(_, _)
DondersFiles(rows, fs) ==
    IF fs = <<>> THEN Ok(rows)
    ELSE LET f == Head(fs)
         IN  CASE f.k = "dlfail" -> Raised(rows)
               [] f.k = "empty" -> DondersFiles(rows, Tail(fs))
               [] f.k = "plain" -> DondersFiles(PlainText(rows, f.txt), Tail(fs))
               [] f.k = "csv" ->
                    LET r == Loop("donders", Url("figshare.com", 1), "",
                                  rows, f.evs)
                    IN  DondersFiles(IF r.raised THEN PlainText(r.rows, f.txt)
                                     ELSE r.rows,
                                     Tail(fs))

collect_donders(resp) ==
    Except(IF ~resp.ok THEN Raised(<<>>) ELSE DondersFiles(<<>>, resp.units))

collect_rss_unguarded(url, lic, resp) ==
    IF ~resp.ok THEN Raised(<<>>)
    ELSE Loop("rss", url, lic, <<>>, Limit(resp.evs, 200))

collect_rss(url, lic, resp) ==
    Except(IF ~resp.ok THEN Raised(<<>>)
           ELSE Loop("rss", url, lic, <<>>, Limit(resp.evs, 200)))

collect_google_sheet(csv_url, lic, resp) ==
    Except(IF ~resp.ok THEN Raised(<<>>)
           ELSE Loop("gsheet", csv_url, lic, <<>>, resp.evs))

collect_reddit(creds, resp) ==
    Except(IF ~resp.ok THEN Raised(<<>>)
           ELSE IF ~creds THEN Ok(<<>>)
           ELSE Loop("reddit", Url("www.reddit.com", 1), "", <<>>, resp.evs))

\* the loop over the dataset names, each in its own try
RECURSIVE HfNames(_, _)
HfNames(rows, ns) ==
    IF ns = <<>> THEN Ok(rows)
    ELSE HfNames(Except(Loop("hf", Url("huggingface.co/datasets", 1), "",
                             rows, Head(ns).evs)).rows,
                 Tail(ns))

collect_hf_datasets(resp) ==
    Except(IF ~resp.ok THEN Raised(<<>>) ELSE HfNames(<<>>, resp.units))

collect_owner_site_unguarded(approved, resp) ==
    Except(IF ~resp.ok THEN Raised(<<>>)
           ELSE LoopCatching("owner", Url("owner/magikum-sonnik", 1), "",
                             <<>>, resp.evs))

collect_owner_site(approved, resp) ==
    IF ~approved THEN Ok(<<>>)
    ELSE Except(IF ~resp.ok THEN Raised(<<>>)
                ELSE LoopCatching("owner", Url("owner/magikum-sonnik", 1), "",
                                  <<>>, resp.evs))

-----------------------------------------------------------------------------
(* Network operations *)

\* RATE = 1.0, in seconds
RATE == 1
\* TIMEOUT = 25, in seconds
TIMEOUT == 25

\* what a collector does on the network, in order: a pause, or a request
\* with the function that issues it and the timeout it is given (0: none)
Sleep(secs) == [op |-> "sleep", by |-> "time.sleep", secs |-> secs, timeout |-> 0]
Request(by, timeout) == [op |-> "request", by |-> by, secs |-> 0, timeout |-> timeout]

\* time.sleep(RATE); requests.get(url, headers=UA, params=params, timeout=TIMEOUT)
safe_get == <<Sleep(RATE), Request("requests.get", TIMEOUT)>>

\* one operator call for each element of a list
RECURSIVE ForEach(_, _)
ForEach(q, ops) == IF q = <<>> THEN <<>> ELSE ops \o ForEach(Tail(q), ops)

\* the network operations of one collector call, for the response it meets:
\* the first request, then one request for each page, file, link or dataset
\* the collector goes on to
NetworkCalls(name, resp) ==
    CASE name = "dreambank" ->
            safe_get \o (IF resp.ok THEN ForEach(Limit(resp.evs, 50), safe_get)
                         ELSE <<>>)
      [] name \in {"sddb", "dryad", "donders"} ->
            safe_get \o (IF resp.ok THEN ForEach(resp.units, safe_get) ELSE <<>>)
      [] name = "rss" -> <<Request("feedparser.parse", 0)>>
      [] name = "gsheet" -> safe_get
      [] name = "reddit" ->
            IF resp.ok /\ env.REDDIT_CREDENTIALS
            THEN <<Request("praw.Reddit", 0)>> ELSE <<>>
      [] name = "hf" ->
            IF resp.ok THEN ForEach(resp.units, <<Request("load_dataset", 0)>>)
            ELSE <<>>
      [] name = "owner" ->
            IF resp.ok /\ env.OWNER_APPROVED THEN ForEach(resp.evs, safe_get)
            ELSE <<>>

-----------------------------------------------------------------------------
(* Deduplication *)

\* Python's hash() of a tuple, used only to tell keys apart: equal tuples
\* hash alike, and the model takes unequal tuples to hash apart (a collision
\* of two 64-bit hashes is left out)
PyHash(t) == <<"hash", t>>

DedupKey(r) == PyHash(<<r.source, shorten(r.text, 160)>>)

\* for r in rows: if key not in dedup: dedup[key] = r, on an
\* insertion-ordered dict kept as a sequence of [key, r]
RECURSIVE DedupInto(_, _)
DedupInto(dedup, rows) ==
    IF rows = <<>> THEN dedup
    ELSE DedupInto(IF \E i \in 1..Len(dedup) : dedup[i].key = DedupKey(Head(rows))
                   THEN dedup
                   ELSE Append(dedup, [key |-> DedupKey(Head(rows)), r |-> Head(rows)]),
                   Tail(rows))

\* list(dedup.values())
Values(dedup) == [i \in 1..Len(dedup) |-> dedup[i].r]

DeduplicateSkippingFirst(rows) ==
    IF rows = <<>> THEN <<>> ELSE Values(DedupInto(<<>>, Tail(rows)))

RECURSIVE DedupLastWinsInto(_, _)
DedupLastWinsInto(dedup, rows) ==
    IF rows = <<>> THEN dedup
    ELSE DedupLastWinsInto(
            IF \E i \in 1..Len(dedup) : dedup[i].key = DedupKey(Head(rows))
            THEN [i \in 1..Len(dedup) |->
                    IF dedup[i].key = DedupKey(Head(rows))
                    THEN [dedup[i] EXCEPT !.r = Head(rows)] ELSE dedup[i]]
            ELSE Append(dedup, [key |-> DedupKey(Head(rows)), r |-> Head(rows)]),
            Tail(rows))

DeduplicateLastWins(rows) == Values(DedupLastWinsInto(<<>>, rows))

Deduplicate(rows) == Values(DedupInto(<<>>, rows))

-----------------------------------------------------------------------------
(* Synthesis *)

\* round(conf, 2), on a confidence held in thousandths
Round2(x) == 10 * ((x + 5) \div 10)

Texts(reports) == [i \in 1..Len(reports) |-> reports[i].text]

FirstN(q, n) == SubSeq(q, 1, IF Len(q) < n THEN Len(q) ELSE n)

llm_paraphrase_heuristic_on_error(symbol, examples, api_key, call_ok) ==
    LET heuristic ==
          [kind |-> "heuristic", symbol |-> symbol,
           ctx |-> pick_contexts(JoinSpace(Texts(examples)), 3)]
    IN  IF ~api_key \/ ~call_ok THEN <<heuristic, 800>>
        ELSE <<[kind |-> "generated", symbol |-> symbol], 900>>

\* api_key: whether OPENAI_API_KEY is set and not empty; call_ok: whether
\* the import, the request and the reading of the reply all succeed
llm_paraphrase(symbol, examples, api_key, call_ok) ==
    LET preview ==
          JoinSpace([i \in 1..Len(FirstN(examples, 3)) |->
                        shorten(examples[i].text, 140)])
    IN  IF ~api_key
        THEN <<[kind |-> "heuristic", symbol |-> symbol,
                ctx |-> pick_contexts(JoinSpace(Texts(examples)), 3)], 800>>
        ELSE IF call_ok
        THEN <<[kind |-> "generated", symbol |-> symbol, preview |-> preview], 900>>
        ELSE <<[kind |-> "fallback", symbol |-> symbol], 600>>

\* the element of `sources` for one report
Source(r) == [url |-> r.url, title |-> r.title, license |-> r.license]

\* the dict main appends to `curated` for one bucket (updated_at, a clock
\* reading, is left out)
Entry(b, api_key, call_ok) ==
    LET res == llm_paraphrase(b.symbol, b.reports, api_key, call_ok)
    IN  [symbol |-> b.symbol,
         contexts |-> pick_contexts(JoinSpace(Texts(b.reports)), 3),
         modern_interpretation |-> res[1],
         tone |-> "neutral",
         lunar_links |-> <<>>,
         sources |-> [i \in 1..Len(FirstN(b.reports, 6)) |-> Source(b.reports[i])],
         confidence |-> Round2(res[2])]

\* for symbol, reports in buckets.items(): curated.append({...})
Synthesize(bs, api_key, failing) ==
    [i \in 1..Len(bs) |-> Entry(bs[i], api_key, bs[i].symbol \notin failing)]

\* a < b for two Python strings given as code points
RECURSIVE StrLess(_, _)
StrLess(a, b) ==
    IF b = <<>> THEN FALSE
    ELSE IF a = <<>> THEN TRUE
    ELSE IF Head(a) # Head(b) THEN Head(a) < Head(b)
    ELSE StrLess(Tail(a), Tail(b))

\* insertion of one entry into a list sorted by symbol, after its equals
RECURSIVE InsertBySymbol(_, _)
InsertBySymbol(sorted, e) ==
    IF sorted = <<>> THEN <<e>>
    ELSE IF StrLess(e.symbol, Head(sorted).symbol) THEN <<e>> \o sorted
    ELSE <<Head(sorted)>> \o InsertBySymbol(Tail(sorted), e)

RECURSIVE SortFrom(_, _)
SortFrom(sorted, es) ==
    IF es = <<>> THEN sorted
    ELSE SortFrom(InsertBySymbol(sorted, Head(es)), Tail(es))

SortOmitted(es) == es

\* curated.sort(key=lambda x: x["symbol"]), a stable sort
SortBySymbol(es) == SortFrom(<<>>, es)

-----------------------------------------------------------------------------
(* The output files *)

\* a file: whether it exists, and what was written to it: the records, and
\* for the array file its opening and closing bracket
NoFile == [exists |-> FALSE, open |-> FALSE, recs |-> <<>>, close |-> FALSE]

\* json.dumps(r, ensure_ascii=False) + "\n"
JsonlLine(e) == [sep |-> "spaced", rec |-> e]
JsonItemWithoutSources(e) == [sep |-> "compact", rec |-> [e EXCEPT !.sources = <<>>]]

\* one element of json.dump(rows, f, separators=(',', ':'))
JsonItem(e) == [sep |-> "compact", rec |-> e]

Target(p) == IF p = "write_jsonl" THEN "jsonl" ELSE "json"

\* what the open file holds once k of the rows are written, and once the
\* write is finished
Written(target, rows, k, finished) ==
    IF target = "jsonl"
    THEN [exists |-> TRUE, open |-> FALSE,
          recs |-> [i \in 1..k |-> JsonlLine(rows[i])], close |-> FALSE]
    ELSE [exists |-> TRUE, open |-> (k > 0 \/ finished),
          recs |-> [i \in 1..k |-> JsonItem(rows[i])], close |-> finished]

\* an entry an earlier run emitted
OldEntry ==
    [symbol |-> BASE_SYMBOLS[3], contexts |-> <<>>,
     modern_interpretation |-> [kind |-> "fallback", symbol |-> BASE_SYMBOLS[3]],
     tone |-> "neutral", lunar_links |-> <<>>, sources |-> <<>>,
     confidence |-> 600]

OldFiles == [jsonl |-> Written("jsonl", <<OldEntry>>, 1, TRUE),
             json |-> Written("json", <<OldEntry>>, 1, TRUE)]
NoFiles == [jsonl |-> NoFile, json |-> NoFile]

-----------------------------------------------------------------------------
(* main *)

\* the keys of cfg["sources"], in the order main reads them
Keys == <<"dreambank", "sddb_zenodo", "dryad", "donders", "rss",
          "google_sheets", "reddit", "hf_datasets", "magickum_owner">>
\* the keys holding a list of items; the others hold an `enabled` flag
ListKeys == {"dryad", "donders", "rss", "google_sheets"}

KeyIndex(k) == CHOOSE i \in 1..Len(Keys) : Keys[i] = k
\* where main goes after the section of key k
After(k) == IF KeyIndex(k) = Len(Keys) THEN "check" ELSE Keys[KeyIndex(k) + 1]

RECURSIVE SumOver(_, _)
SumOver(f, i) == IF i = 0 THEN 0 ELSE f[Keys[i]] + SumOver(f, i - 1)

Configs ==
    {f \in [{Keys[i] : i \in 1..Len(Keys)} -> 0..MaxCalls] :
        /\ \A i \in 1..Len(Keys) : Keys[i] \notin ListKeys => f[Keys[i]] <= 1
        /\ SumOver(f, Len(Keys)) <= MaxCalls}

NoCall == [name |-> "none"]

\* the configuration file is there and well formed
NoFault == [kind |-> "none", key |-> "", idx |-> 0]

\* what can be wrong with the configuration: the file is missing; it is not
\* YAML; the value of a key is not of the kind main reads it as (a mapping, or
\* a list of mappings); an item of a list lacks the parameter main passes to
\* the collector (doi, fig_id, url, csv_url); reddit's limit is not a number
Faults ==
    {[kind |-> k, key |-> "", idx |-> 0] : k \in {"missing_file", "bad_yaml"}}
    \cup {[kind |-> "bad_section", key |-> Keys[i], idx |-> 0] : i \in 1..Len(Keys)}
    \cup {[kind |-> "no_param", key |-> k, idx |-> i] :
             k \in ListKeys, i \in 1..MaxCalls}
    \cup {[kind |-> "bad_limit", key |-> "reddit", idx |-> 0]}

\* .get on a value that is not a mapping raises AttributeError in main
BadSection(k) == fault.kind = "bad_section" /\ fault.key = k
\* `if doi:` (fig, url, csv_url) is false for the item main is at
NoParam(k) == fault.kind = "no_param" /\ fault.key = k /\ fault.idx = idx

\* collect_owner_site not being followed step by step
CrawlIdle ==
    /\ site = <<>>
    /\ queue = <<>>
    /\ qi = 0
    /\ seen = {}
    /\ fetched = <<>>
    /\ orows = <<>>
    /\ opc = "idle"

Init ==
    /\ cfg \in Configs
    /\ env \in {e \in [OPENAI_API_KEY : BOOLEAN, OWNER_APPROVED : BOOLEAN,
                       REDDIT_CREDENTIALS : BOOLEAN] :
                  /\ e.OWNER_APPROVED => cfg["magickum_owner"] = 1
                  /\ e.REDDIT_CREDENTIALS => cfg["reddit"] = 1}
    /\ prev \in {NoFiles, OldFiles}
    /\ files = prev
    /\ pc = "load"
    /\ idx = 1
    /\ calls = [k \in DOMAIN cfg |-> 0]
    /\ raw = <<>>
    /\ merged = <<>>
    /\ lastcall = NoCall
    /\ buckets = <<>>
    /\ llm_fail = {}
    /\ curated = <<>>
    /\ wpos = -1
    /\ exit_code = -1
    /\ fault = NoFault
    /\ CrawlIdle

\* a run on a configuration with something wrong in it; the faulty key is
\* one the configuration means to collect from
ConfigInit ==
    /\ fault \in Faults
    /\ cfg \in {c \in Configs :
                  /\ fault.kind \in {"bad_section", "bad_limit"} => c[fault.key] >= 1
                  /\ fault.kind = "no_param" => c[fault.key] >= fault.idx}
    /\ env \in {e \in [OPENAI_API_KEY : BOOLEAN, OWNER_APPROVED : BOOLEAN,
                       REDDIT_CREDENTIALS : BOOLEAN] :
                  /\ e.OWNER_APPROVED <=> cfg["magickum_owner"] = 1
                  /\ e.REDDIT_CREDENTIALS <=> cfg["reddit"] = 1}
    /\ prev = NoFiles
    /\ files = prev
    /\ pc = "load"
    /\ idx = 1
    /\ calls = [k \in DOMAIN cfg |-> 0]
    /\ raw = <<>>
    /\ merged = <<>>
    /\ lastcall = NoCall
    /\ buckets = <<>>
    /\ llm_fail = {}
    /\ curated = <<>>
    /\ wpos = -1
    /\ exit_code = -1
    /\ CrawlIdle

\* an exception that nothing catches: the process ends with status 1
Fatal ==
    /\ pc' = "crashed"
    /\ exit_code' = 1
    /\ lastcall' = NoCall
    /\ UNCHANGED <<crawl, fault, cfg, env, prev, idx, calls, raw, merged, buckets,
                   llm_fail, curated, files, wpos>>

\* an item of a list that main passes over
SkipItem ==
    /\ idx' = idx + 1
    /\ lastcall' = NoCall
    /\ UNCHANGED <<crawl, fault, cfg, env, prev, pc, calls, raw, merged, buckets,
                   llm_fail, curated, files, wpos, exit_code>>

\* open(cfg_path); yaml.safe_load(f); cfg.get("sources")
LoadConfig ==
    /\ pc = "load"
    /\ IF fault.kind \in {"missing_file", "bad_yaml"}
       THEN Fatal
       ELSE /\ pc' = Keys[1]
            /\ UNCHANGED <<crawl, fault, cfg, env, prev, idx, calls, raw, merged,
                           lastcall, buckets, llm_fail, curated, files, wpos,
                           exit_code>>

\* raw += <collector>(...): an exception leaving the collector would leave
\* main too and end the process with status 1
Merge(name, resp, r, next_pc, next_idx) ==
    /\ lastcall' = [name |-> name, resp |-> resp, before |-> raw, idx |-> idx,
                    net |-> NetworkCalls(name, resp)]
    /\ calls' = [calls EXCEPT ![pc] = @ + 1]
    /\ IF r.raised
       THEN /\ pc' = "crashed"
            /\ exit_code' = 1
            /\ UNCHANGED <<raw, idx>>
       ELSE /\ raw' = raw \o r.rows
            /\ pc' = next_pc
            /\ idx' = next_idx
            /\ UNCHANGED exit_code
    /\ UNCHANGED <<crawl, fault, cfg, env, prev, merged, buckets, llm_fail, curated, files, wpos>>

\* a section whose provider is not enabled, or whose list is exhausted
Skip(k) ==
    /\ pc' = After(k)
    /\ idx' = 1
    /\ lastcall' = NoCall
    /\ UNCHANGED <<crawl, fault, cfg, env, prev, calls, raw, merged, buckets, llm_fail,
                   curated, files, wpos, exit_code>>

Section_dreambank ==
    /\ pc = "dreambank"
    /\ IF BadSection("dreambank") THEN Fatal
       ELSE IF cfg["dreambank"] = 1
       THEN \E resp \in Responses("dreambank") :
               Merge("dreambank", resp, collect_dreambank(50, resp),
                     After("dreambank"), 1)
       ELSE Skip("dreambank")

Section_sddb_zenodo ==
    /\ pc = "sddb_zenodo"
    /\ IF BadSection("sddb_zenodo") THEN Fatal
       ELSE IF cfg["sddb_zenodo"] = 1
       THEN \E resp \in Responses("sddb") :
               Merge("sddb", resp, collect_sddb_zenodo(resp),
                     After("sddb_zenodo"), 1)
       ELSE Skip("sddb_zenodo")

Section_dryad ==
    /\ pc = "dryad"
    /\ IF BadSection("dryad") THEN Fatal
       ELSE IF idx <= cfg["dryad"]
       THEN IF NoParam("dryad") THEN SkipItem ELSE
            \E resp \in Responses("dryad") :
               Merge("dryad", resp, collect_dryad(resp), "dryad", idx + 1)
       ELSE Skip("dryad")

Section_donders ==
    /\ pc = "donders"
    /\ IF BadSection("donders") THEN Fatal
       ELSE IF idx <= cfg["donders"]
       THEN IF NoParam("donders") THEN SkipItem ELSE
            \E resp \in Responses("donders") :
               Merge("donders", resp, collect_donders(resp), "donders", idx + 1)
       ELSE Skip("donders")

Section_rss ==
    /\ pc = "rss"
    /\ IF BadSection("rss") THEN Fatal
       ELSE IF idx <= cfg["rss"]
       THEN IF NoParam("rss") THEN SkipItem ELSE
            \E resp \in Responses("rss") :
               Merge("rss", resp, collect_rss(Url("feed", idx), "unknown", resp),
                     "rss", idx + 1)
       ELSE Skip("rss")

Section_google_sheets ==
    /\ pc = "google_sheets"
    /\ IF BadSection("google_sheets") THEN Fatal
       ELSE IF idx <= cfg["google_sheets"]
       THEN IF NoParam("google_sheets") THEN SkipItem ELSE
            \E resp \in Responses("gsheet") :
               Merge("gsheet", resp,
                     collect_google_sheet(Url("sheet", idx), "by-owner", resp),
                     "google_sheets", idx + 1)
       ELSE Skip("google_sheets")

Section_reddit ==
    /\ pc = "reddit"
    /\ IF BadSection("reddit") THEN Fatal
       ELSE IF cfg["reddit"] = 1
       THEN IF fault.kind = "bad_limit" THEN Fatal ELSE
            \E resp \in Responses("reddit") :
               Merge("reddit", resp, collect_reddit(env.REDDIT_CREDENTIALS, resp),
                     After("reddit"), 1)
       ELSE Skip("reddit")

Section_hf_datasets ==
    /\ pc = "hf_datasets"
    /\ IF BadSection("hf_datasets") THEN Fatal
       ELSE IF cfg["hf_datasets"] = 1
       THEN \E resp \in Responses("hf") :
               Merge("hf", resp, collect_hf_datasets(resp), After("hf_datasets"), 1)
       ELSE Skip("hf_datasets")

Section_magickum_owner ==
    /\ pc = "magickum_owner"
    /\ IF BadSection("magickum_owner") THEN Fatal
       ELSE IF cfg["magickum_owner"] = 1
       THEN \E resp \in Responses("owner") :
               Merge("owner", resp, collect_owner_site(env.OWNER_APPROVED, resp),
                     After("magickum_owner"), 1)
       ELSE Skip("magickum_owner")

CheckEmptyEmitsAnyway ==
    /\ pc = "check"
    /\ merged' = raw
    /\ lastcall' = NoCall
    /\ pc' = "dedup"
    /\ UNCHANGED <<crawl, fault, cfg, env, prev, idx, calls, raw, buckets, llm_fail, curated,
                   files, wpos, exit_code>>

\* if not raw: sys.exit(2)
CheckEmpty ==
    /\ pc = "check"
    /\ merged' = raw
    /\ lastcall' = NoCall
    /\ IF raw = <<>>
       THEN pc' = "exit" /\ exit_code' = 2
       ELSE pc' = "dedup" /\ UNCHANGED exit_code
    /\ UNCHANGED <<crawl, fault, cfg, env, prev, idx, calls, raw, buckets, llm_fail, curated,
                   files, wpos>>

Dedup ==
    /\ pc = "dedup"
    /\ raw' = Deduplicate(raw)
    /\ pc' = "group"
    /\ UNCHANGED <<crawl, fault, cfg, env, prev, idx, calls, merged, lastcall, buckets,
                   llm_fail, curated, files, wpos, exit_code>>

Group ==
    /\ pc = "group"
    /\ buckets' = group_by_symbol(raw)
    /\ pc' = "synth"
    /\ UNCHANGED <<crawl, fault, cfg, env, prev, idx, calls, raw, merged, lastcall, llm_fail,
                   curated, files, wpos, exit_code>>

\* the loop over the buckets; the generative provider is called once per
\* bucket when the key is set, and each call may fail
Synth ==
    /\ pc = "synth"
    /\ \E failing \in SUBSET {buckets[i].symbol : i \in 1..Len(buckets)} :
          /\ ~env.OPENAI_API_KEY => failing = {}
          /\ llm_fail' = failing
          /\ curated' = Synthesize(buckets, env.OPENAI_API_KEY, failing)
    /\ pc' = "sort"
    /\ UNCHANGED <<crawl, fault, cfg, env, prev, idx, calls, raw, merged, lastcall, buckets,
                   files, wpos, exit_code>>

Sort ==
    /\ pc = "sort"
    /\ curated' = SortBySymbol(curated)
    /\ pc' = "write_jsonl"
    /\ UNCHANGED <<crawl, fault, cfg, env, prev, idx, calls, raw, merged, lastcall, buckets,
                   llm_fail, files, wpos, exit_code>>

\* os.makedirs(...); open(path, "w"): the file is created, or cut to nothing
WriteOpen ==
    /\ pc \in {"write_jsonl", "write_json"}
    /\ wpos = -1
    /\ files' = [files EXCEPT ![Target(pc)] = Written(Target(pc), curated, 0, FALSE)]
    /\ wpos' = 0
    /\ UNCHANGED <<crawl, fault, cfg, env, prev, pc, idx, calls, raw, merged, lastcall,
                   buckets, llm_fail, curated, exit_code>>

\* one f.write of a row
WriteRow ==
    /\ pc \in {"write_jsonl", "write_json"}
    /\ wpos >= 0
    /\ wpos < Len(curated)
    /\ files' = [files EXCEPT ![Target(pc)] =
                    Written(Target(pc), curated, wpos + 1, FALSE)]
    /\ wpos' = wpos + 1
    /\ UNCHANGED <<crawl, fault, cfg, env, prev, pc, idx, calls, raw, merged, lastcall,
                   buckets, llm_fail, curated, exit_code>>

\* the last chunk and the end of the `with` block
WriteClose ==
    /\ pc \in {"write_jsonl", "write_json"}
    /\ wpos = Len(curated)
    /\ files' = [files EXCEPT ![Target(pc)] =
                    Written(Target(pc), curated, wpos, TRUE)]
    /\ wpos' = -1
    /\ IF pc = "write_jsonl"
       THEN pc' = "write_json" /\ UNCHANGED exit_code
       ELSE pc' = "done" /\ exit_code' = 0
    /\ UNCHANGED <<crawl, fault, cfg, env, prev, idx, calls, raw, merged, lastcall, buckets,
                   llm_fail, curated>>

\* makedirs, open or write raises OSError (no permission, disk full): the
\* `with` block closes the file as it is and the exception ends the process
WriteError ==
    /\ pc \in {"write_jsonl", "write_json"}
    /\ pc' = "crashed"
    /\ exit_code' = 1
    /\ wpos' = -1
    /\ UNCHANGED <<crawl, fault, cfg, env, prev, idx, calls, raw, merged, lastcall, buckets,
                   llm_fail, curated, files>>

Next ==
    \/ LoadConfig
    \/ Section_dreambank
    \/ Section_sddb_zenodo
    \/ Section_dryad
    \/ Section_donders
    \/ Section_rss
    \/ Section_google_sheets
    \/ Section_reddit
    \/ Section_hf_datasets
    \/ Section_magickum_owner
    \/ CheckEmpty
    \/ Dedup
    \/ Group
    \/ Synth
    \/ Sort
    \/ WriteOpen
    \/ WriteRow
    \/ WriteClose
    \/ WriteError

Spec == Init /\ [][Next]_vars

\* the same program on a configuration with something wrong in it
ConfigSpec == ConfigInit /\ [][Next]_vars

-----------------------------------------------------------------------------
(* collect_owner_site, step by step *)

\* a URL: its host, the segments of its path and its query string
MkUrl(host, path, query) == [host |-> host, path |-> path, query |-> query]

\* the pieces of the URL as a string, in order
UrlString(u) == <<"https://", u.host>> \o u.path \o u.query

\* tldextract.extract(host).registered_domain, for the hosts of the model
registered_domain(host) ==
    CASE host \in {"owner.example", "www.owner.example"} -> "owner.example"
      [] host = "other.example" -> "other.example"
      [] OTHER -> ""

\* `piece in u` for a piece that is a whole path segment
Contains(u, piece) == \E i \in 1..Len(UrlString(u)) : UrlString(u)[i] = piece

\* ow.get("domain"), ow.get("start_url")
OwnerDomain == "owner.example"
StartUrl == MkUrl("owner.example", <<"/magikum-sonnik">>, <<>>)
\* a page under the prefix, on a subdomain
SubPage == MkUrl("www.owner.example", <<"/magikum-sonnik", "/voda">>, <<>>)
\* pages of the owner's domain outside the prefix, one naming it further on
BlogPage == MkUrl("owner.example", <<"/blog", "/magikum-sonnik">>, <<>>)
AboutPage == MkUrl("owner.example", <<"/about">>, <<>>)
\* a page of another site
OtherSite == MkUrl("other.example", <<"/magikum-sonnik">>, <<>>)

Urls == {StartUrl, SubPage, BlogPage, AboutPage, OtherSite}
\* the pages whose links the model chooses freely
Pages == {StartUrl, SubPage, BlogPage}

\* the links of each page, already resolved against the page (urljoin)
Sites ==
    {[u \in Urls |-> IF u \in Pages THEN f[u] ELSE <<>>] :
        f \in [Pages -> SeqsUpTo(Urls, MaxLinks)]}

\* len(text) > 300 for the text of the page
LongText(u) == u # StartUrl

\* the test a discovered link passes to be queued
Queued(u, base_host, visited) ==
    /\ base_host # ""
    /\ registered_domain(u.host) = base_host
    /\ u \notin visited
    /\ Contains(u, "/magikum-sonnik")

\* main's state while the collector runs: the owner's site is the one
\* provider enabled
CrawlInit ==
    /\ cfg = [k \in {Keys[i] : i \in 1..Len(Keys)} |->
                IF k = "magickum_owner" THEN 1 ELSE 0]
    /\ env \in [OPENAI_API_KEY : {FALSE}, OWNER_APPROVED : BOOLEAN,
                 REDDIT_CREDENTIALS : {FALSE}]
    /\ prev = NoFiles
    /\ files = prev
    /\ pc = "magickum_owner"
    /\ idx = 1
    /\ calls = [k \in DOMAIN cfg |-> 0]
    /\ raw = <<>>
    /\ merged = <<>>
    /\ lastcall = NoCall
    /\ buckets = <<>>
    /\ llm_fail = {}
    /\ curated = <<>>
    /\ wpos = -1
    /\ exit_code = -1
    /\ fault = NoFault
    /\ site \in Sites
    /\ queue = <<>>
    /\ qi = 0
    /\ seen = {}
    /\ fetched = <<>>
    /\ orows = <<>>
    /\ opc = "call"

main_vars == <<cfg, env, prev, pc, idx, calls, raw, merged, lastcall, buckets,
               llm_fail, curated, files, wpos, exit_code, fault>>

\* the OWNER_APPROVED test, then q=[start_url]
Crawl_Enter ==
    /\ opc = "call"
    /\ IF ~env.OWNER_APPROVED
       THEN opc' = "returned" /\ UNCHANGED <<queue, qi>>
       ELSE queue' = <<StartUrl>> /\ qi' = 1 /\ opc' = "loop"
    /\ UNCHANGED <<main_vars, site, seen, fetched, orows>>

\* one iteration of `for href in q` on which the visited test is left out
Crawl_Iterate_without_seen_test ==
    /\ opc = "loop"
    /\ qi <= Len(queue)
    /\ LET href == queue[qi]
           base_host == registered_domain(OwnerDomain)
       IN  /\ seen' = seen \cup {href}
           /\ fetched' = Append(fetched, href)
           /\ \/ UNCHANGED <<orows, queue>>
              \/ \E k \in 0..Len(site[href]) :
                    /\ orows' = IF LongText(href) THEN Append(orows, href)
                                 ELSE orows
                    /\ queue' = queue \o SelectSeq(SubSeq(site[href], 1, k),
                                        LAMBDA u : Queued(u, base_host, seen'))
    /\ qi' = qi + 1
    /\ UNCHANGED <<main_vars, site, opc>>

\* one iteration of `for href in q`: a URL already visited is passed over;
\* another is marked visited and fetched.  Either the fetch or the parsing
\* raises and nothing more happens, or the row is kept and the links are
\* gone through, all of them or, when one raises, the first k of them
Crawl_Iterate ==
    /\ opc = "loop"
    /\ qi <= Len(queue)
    /\ LET href == queue[qi]
           base_host == registered_domain(OwnerDomain)
       IN  IF href \in seen
           THEN UNCHANGED <<seen, fetched, orows, queue>>
           ELSE /\ seen' = seen \cup {href}
                /\ fetched' = Append(fetched, href)
                /\ \/ UNCHANGED <<orows, queue>>
                   \/ \E k \in 0..Len(site[href]) :
                         /\ orows' = IF LongText(href) THEN Append(orows, href)
                                      ELSE orows
                         /\ queue' = queue \o SelectSeq(SubSeq(site[href], 1, k),
                                             LAMBDA u : Queued(u, base_host, seen'))
    /\ qi' = qi + 1
    /\ UNCHANGED <<main_vars, site, opc>>

\* the loop has reached the end of q: return rows
Crawl_Return ==
    /\ opc = "loop"
    /\ qi > Len(queue)
    /\ opc' = "returned"
    /\ UNCHANGED <<main_vars, site, queue, qi, seen, fetched, orows>>

CrawlNext ==
    \/ Crawl_Enter
    \/ Crawl_Iterate
    \/ Crawl_Return

\* the collector is sequential code and every request it makes has a
\* timeout, so it takes its next step as long as it has one
CrawlSpec == CrawlInit /\ [][CrawlNext]_vars /\ WF_vars(CrawlNext)

-----------------------------------------------------------------------------
(* Properties *)

CollectionPcs == {Keys[i] : i \in 1..Len(Keys)}
\* main is past `if not raw`
PastCheck == pc \in {"dedup", "group", "synth", "sort", "write_jsonl",
                     "write_json", "done", "exit"}
\* `curated` is sorted and being written, or written
Emitting == pc \in {"write_jsonl", "write_json", "done"}

VocabularySet == {BASE_SYMBOLS[i] : i \in 1..Len(BASE_SYMBOLS)}

IsPrefix(p, q) == Len(p) <= Len(q) /\ SubSeq(q, 1, Len(p)) = p

\* C1: when the merged list is empty once every enabled collector has been
\* called, the run ends with status 2 and both output files are as they were
\* before the run; status 2 is taken only then, with every configured call made.
C1_EmptyRunExits2 ==
    /\ (PastCheck /\ merged = <<>>) =>
          (pc = "exit" /\ exit_code = 2 /\ files = prev)
    /\ exit_code = 2 =>
          (pc = "exit" /\ raw = <<>> /\ merged = <<>> /\ calls = cfg
           /\ files = prev)

C1_Witness ==
    /\ exit_code = 2
    /\ \E k \in DOMAIN calls : calls[k] > 0
    /\ prev = OldFiles

\* the response cut right before its first failure: what the provider had
\* sent by then, and nothing failing
RECURSIVE CutEvs(_)
CutEvs(evs) ==
    IF evs = <<>> \/ Head(evs) = RaiseEv THEN <<>>
    ELSE <<Head(evs)>> \o CutEvs(Tail(evs))

UnitFails(u) == u.k = "dlfail" \/ \E i \in 1..Len(u.evs) : u.evs[i] = RaiseEv

RECURSIVE CutUnits(_)
CutUnits(us) ==
    IF us = <<>> THEN <<>>
    ELSE IF Head(us).k = "dlfail" THEN <<>>
    ELSE IF UnitFails(Head(us)) THEN <<[Head(us) EXCEPT !.evs = CutEvs(@)]>>
    ELSE <<Head(us)>> \o CutUnits(Tail(us))

CutBeforeFailure(resp) ==
    IF ~resp.ok THEN [ok |-> TRUE, evs |-> <<>>, units |-> <<>>]
    ELSE [ok |-> TRUE, evs |-> CutEvs(resp.evs), units |-> CutUnits(resp.units)]

HasFailure(resp) ==
    \/ ~resp.ok
    \/ \E i \in 1..Len(resp.evs) : resp.evs[i] = RaiseEv
    \/ \E i \in 1..Len(resp.units) : UnitFails(resp.units[i])

\* what the collector of a call returns for a response, with the arguments
\* main gave it
Returned(call, resp) ==
    CASE call.name = "dreambank" -> collect_dreambank(50, resp)
      [] call.name = "sddb" -> collect_sddb_zenodo(resp)
      [] call.name = "dryad" -> collect_dryad(resp)
      [] call.name = "donders" -> collect_donders(resp)
      [] call.name = "rss" -> collect_rss(Url("feed", call.idx), "unknown", resp)
      [] call.name = "gsheet" ->
            collect_google_sheet(Url("sheet", call.idx), "by-owner", resp)
      [] call.name = "reddit" -> collect_reddit(env.REDDIT_CREDENTIALS, resp)
      [] call.name = "hf" -> collect_hf_datasets(resp)
      [] call.name = "owner" -> collect_owner_site(env.OWNER_APPROVED, resp)

\* C2: whatever fails inside a collector call, the call returns to main (the
\* run goes on), `raw` then holds everything it held before the call followed
\* by at least the reports the collector had gathered before the failure, and
\* once main leaves the collection phase every configured call has been made.
C2_FailuresAbsorbed ==
    /\ lastcall # NoCall =>
          /\ pc # "crashed" /\ exit_code = -1
          /\ IsPrefix(lastcall.before, raw)
          /\ IsPrefix(lastcall.before
                        \o Returned(lastcall, CutBeforeFailure(lastcall.resp)).rows,
                      raw)
    /\ pc = "crashed" => merged # <<>>
    /\ pc = "check" => calls = cfg

\* a call that fails after gathering a report, made after another collector
\* had already contributed
C2_Witness ==
    /\ lastcall # NoCall
    /\ HasFailure(lastcall.resp)
    /\ lastcall.before # <<>>
    /\ Len(raw) > Len(lastcall.before)
    /\ pc \in CollectionPcs \cup {"check"}

NewContent(target) == Written(target, curated, Len(curated), TRUE)

\* C3: when a write has failed and the process has stopped, each output file
\* holds its complete previous content or its complete new content.
C3_AllOrNothing ==
    pc = "crashed" =>
        \A target \in {"jsonl", "json"} :
            files[target] = prev[target] \/ files[target] = NewContent(target)

\* the best symbol of each report, and whether its score reaches 70
Best(rows) == [i \in 1..Len(rows) |-> extractOne(rows[i].text)]

\* the reports of the deduplicated list whose best symbol is s, with a score
\* of at least 70
Matched(rows, s) ==
    LET best == Best(rows)
        RECURSIVE Pick(_)
        Pick(i) == IF i > Len(rows) THEN <<>>
                   ELSE (IF best[i][1] = s /\ best[i][2] >= 70 THEN <<rows[i]>>
                         ELSE <<>>) \o Pick(i + 1)
    IN  Pick(1)

\* the symbols some report of the list is assigned to
MatchedSymbols(rows) ==
    LET best == Best(rows)
    IN  {best[i][1] : i \in {j \in 1..Len(rows) : best[j][2] >= 70}}

\* C4: the emitted entries are strictly ascending by symbol in code-point
\* order, every symbol is in BASE_SYMBOLS, and there is exactly one entry for
\* each symbol that some deduplicated report is assigned to; the files, once
\* written, hold these entries in this order.
C4_SortedUniqueVocabulary ==
    Emitting =>
        /\ \A i, j \in 1..Len(curated) :
              i < j => StrLess(curated[i].symbol, curated[j].symbol)
        /\ \A i \in 1..Len(curated) : curated[i].symbol \in VocabularySet
        /\ {curated[i].symbol : i \in 1..Len(curated)} = MatchedSymbols(raw)
        /\ pc = "done" =>
              \A target \in {"jsonl", "json"} :
                 /\ Len(files[target].recs) = Len(curated)
                 /\ \A i \in 1..Len(curated) : files[target].recs[i].rec = curated[i]

\* two buckets, created in the opposite of their sorted order
C4_Witness ==
    /\ pc = "done"
    /\ Len(buckets) = 2
    /\ StrLess(buckets[2].symbol, buckets[1].symbol)
    /\ Len(curated) = 2

\* the provider a report came from: its kind and, for the providers the
\* configuration lists several of, which one
ProviderOf(r) == <<r.source, r.url>>

Providers(rows) == {ProviderOf(rows[i]) : i \in 1..Len(rows)}

Orders(S) ==
    {f \in [1..Cardinality(S) -> S] :
        \A i, j \in 1..Cardinality(S) : i # j => f[i] # f[j]}

\* the outputs of the providers, merged in the given order
RECURSIVE MergedIn(_, _)
MergedIn(order, rows) ==
    IF order = <<>> THEN <<>>
    ELSE SelectSeq(rows, LAMBDA r : ProviderOf(r) = Head(order))
         \o MergedIn(Tail(order), rows)

\* main from the merged list to the sorted entries, with the same credential
\* and the same provider failures
Pipeline(rows) ==
    SortBySymbol(Synthesize(group_by_symbol(Deduplicate(rows)),
                            env.OPENAI_API_KEY, llm_fail))

\* symbol, contexts, sources and confidence of each entry, the contexts and
\* the sources without their order
Core(es) ==
    [i \in 1..Len(es) |->
        [symbol |-> es[i].symbol,
         contexts |-> {es[i].contexts[j] : j \in 1..Len(es[i].contexts)},
         sources |-> {es[i].sources[j] : j \in 1..Len(es[i].sources)},
         confidence |-> es[i].confidence]]

\* C5: the emitted entries (the symbols in their order and, for each symbol,
\* its contexts, its sources and its confidence) are those the same collector
\* outputs give when the providers are merged in any other order.
C5_OrderIndependent ==
    Emitting =>
        \A order \in Orders(Providers(merged)) :
            Core(Pipeline(MergedIn(order, merged))) = Core(curated)

\* the pair the claim keys deduplication by
Prefix160(r) == <<r.source, Take(r.text, 160)>>
\* the pair the code keys it by
Shortened160(r) == <<r.source, shorten(r.text, 160)>>

\* `raw` holds the deduplicated list
Deduplicated == pc \in {"group", "synth", "sort", "write_jsonl", "write_json", "done"}

\* kept holds exactly one report for each value of key on all, the first
\* report of all with that value
OnePerKey(all, kept, key(_)) ==
    /\ \A i \in 1..Len(all) :
          LET first == CHOOSE j \in 1..i :
                          /\ key(all[j]) = key(all[i])
                          /\ \A h \in 1..(j - 1) : key(all[h]) # key(all[i])
              held == {j \in 1..Len(kept) : key(kept[j]) = key(all[i])}
          IN  /\ Cardinality(held) = 1
              /\ \A j \in held : kept[j] = all[first]
    /\ \A j \in 1..Len(kept) : \E i \in 1..Len(all) : all[i] = kept[j]

\* for two reports of all with the same text and different sources, kept holds
\* a report with that text of each of the two sources
BothProvidersKept(all, kept) ==
    \A i, j \in 1..Len(all) :
        (all[i].text = all[j].text /\ all[i].source # all[j].source) =>
            \E h, g \in 1..Len(kept) :
                /\ h # g
                /\ kept[h].text = all[i].text /\ kept[h].source = all[i].source
                /\ kept[g].text = all[j].text /\ kept[g].source = all[j].source

\* C6 as claimed: one report is retained for each distinct pair (source,
\* first 160 characters of the text), the first with that pair in merged
\* order, and identical texts of different providers are both retained.
C6_OnePerPrefix160 ==
    Deduplicated =>
        (OnePerKey(merged, raw, Prefix160) /\ BothProvidersKept(merged, raw))

\* C6 as amended: one report is retained for each distinct pair (source,
\* shorten(text, 160)), that is the text with white space collapsed and
\* trimmed, cut to its first 159 characters and an ellipsis when longer than
\* 160; it is the first with that pair in merged order, the retained reports
\* stand in the order of their first occurrence, and identical texts of
\* different providers are both retained.
C6_OnePerShortenedText ==
    Deduplicated =>
        /\ OnePerKey(merged, raw, Shortened160)
        /\ BothProvidersKept(merged, raw)
        /\ \A i, j \in 1..Len(raw) :
              i < j =>
                 \E a, b \in 1..Len(merged) :
                    a < b /\ merged[a] = raw[i] /\ merged[b] = raw[j]

\* two different texts of one provider with the same shortened text, the
\* second one dropped
C6_Witness ==
    /\ pc = "group"
    /\ \E i, j \in 1..Len(merged) :
          /\ i < j
          /\ merged[i].text # merged[j].text
          /\ Shortened160(merged[i]) = Shortened160(merged[j])
          /\ Prefix160(merged[i]) # Prefix160(merged[j])
    /\ Len(raw) < Len(merged)

\* C7: the Deduplicator applied to its own output removes nothing, and
\* applied to the merged list again it retains the same reports.
C7_DedupIdempotent ==
    Deduplicated =>
        /\ Deduplicate(raw) = raw
        /\ Deduplicate(Deduplicate(merged)) = Deduplicate(merged)
        /\ {DedupKey(raw[i]) : i \in 1..Len(raw)}
              = {DedupKey(merged[i]) : i \in 1..Len(merged)}

\* a run in which deduplication dropped a report and kept others
C7_Witness ==
    /\ pc = "group"
    /\ Len(raw) < Len(merged)
    /\ Len(raw) >= 2

\* `buckets` holds the grouping of the deduplicated list
Grouped == pc \in {"synth", "sort", "write_jsonl", "write_json", "done"}
\* `curated` holds one entry per bucket
Synthesized == pc \in {"sort", "write_jsonl", "write_json", "done"}

\* the buckets that hold the report r
Holders(r) ==
    {k \in 1..Len(buckets) :
        \E j \in 1..Len(buckets[k].reports) : buckets[k].reports[j] = r}

EntryOf(s) == CHOOSE i \in 1..Len(curated) : curated[i].symbol = s

\* C8: each deduplicated report is in the one bucket of its best-scoring symbol
\* (once) when the score is at least 70 and in no bucket otherwise, the
\* buckets hold nothing else, and each emitted entry is computed from the
\* reports assigned to its symbol alone.
C8_AtMostOneBucket ==
    /\ Grouped =>
          \A best \in {Best(raw)} :
          LET assigned(s) ==
                 SelectSeq(raw, LAMBDA r : \E i \in 1..Len(raw) :
                                   raw[i] = r /\ best[i][1] = s /\ best[i][2] >= 70)
          IN  /\ \A i \in 1..Len(raw) :
                    LET holders == Holders(raw[i])
                    IN  IF best[i][2] >= 70
                        THEN /\ holders = {k \in 1..Len(buckets) :
                                              buckets[k].symbol = best[i][1]}
                             /\ Cardinality(holders) = 1
                             /\ \A k \in holders :
                                   Cardinality({j \in 1..Len(buckets[k].reports) :
                                                   buckets[k].reports[j] = raw[i]}) = 1
                        ELSE holders = {}
              /\ \A k \in 1..Len(buckets) :
                    buckets[k].reports = assigned(buckets[k].symbol)
              /\ Synthesized =>
                    \A k \in 1..Len(buckets) :
                       LET e == curated[EntryOf(buckets[k].symbol)]
                           mine == assigned(buckets[k].symbol)
                       IN  /\ e.sources
                                = [i \in 1..Len(FirstN(mine, 6)) |-> Source(mine[i])]
                           /\ e.contexts = pick_contexts(JoinSpace(Texts(mine)), 3)
    /\ Synthesized => Len(curated) = Len(buckets)

\* a run with a report below 70, a report that scores the same on two
\* symbols, and an emitted entry
C8_Witness ==
    /\ pc = "done"
    /\ curated # <<>>
    /\ \E i \in 1..Len(raw) : extractOne(raw[i].text)[2] < 70
    /\ \E i \in 1..Len(raw) :
          /\ partial_ratio(raw[i].text, BASE_SYMBOLS[1]) >= 70
          /\ partial_ratio(raw[i].text, BASE_SYMBOLS[2]) >= 70

\* C9: every bucket gives one entry, whose confidence is 0.8 exactly when no
\* key is configured, 0.9 exactly when a key is configured and the call for
\* its symbol succeeded, 0.6 exactly when a key is configured and the call
\* failed; a failed call gives the fallback text and the run goes on.
C9_ThreeOutcomes ==
    /\ Synthesized =>
          /\ Len(curated) = Len(buckets)
          /\ {curated[i].symbol : i \in 1..Len(curated)}
                = {buckets[i].symbol : i \in 1..Len(buckets)}
          /\ \A i \in 1..Len(curated) :
                LET e == curated[i]
                    failed == e.symbol \in llm_fail
                IN  /\ e.confidence \in {600, 800, 900}
                    /\ e.confidence = 800 <=> ~env.OPENAI_API_KEY
                    /\ e.confidence = 900 <=> (env.OPENAI_API_KEY /\ ~failed)
                    /\ e.confidence = 600 <=> (env.OPENAI_API_KEY /\ failed)
                    /\ e.modern_interpretation.kind = "heuristic" <=> e.confidence = 800
                    /\ e.modern_interpretation.kind = "generated" <=> e.confidence = 900
                    /\ e.modern_interpretation.kind = "fallback" <=> e.confidence = 600
    /\ pc = "sort" => exit_code = -1

\* a run with a key in which the call failed for one symbol and succeeded
\* for another
C9_Witness ==
    /\ pc = "done"
    /\ llm_fail # {}
    /\ \E i, j \in 1..Len(curated) :
          curated[i].confidence = 600 /\ curated[j].confidence = 900

\* the number each collector compares the length of a text with
Threshold(source) ==
    CASE source = "dreambank" -> 400
      [] source \in {"sddb", "dryad", "donders", "hf"} -> 120
      [] source \in {"rss", "reddit"} -> 160
      [] source = "gsheet" -> 60
      [] source = "owner" -> 300

\* the least length of a text the collector keeps on its length
MinLen(source) ==
    IF source \in {"dreambank", "rss", "reddit", "gsheet"} THEN Threshold(source)
    ELSE Threshold(source) + 1

\* C10 as claimed: the text of every collected report is longer than the
\* threshold of its provider.
C10_TextAboveThreshold ==
    \A i \in 1..Len(raw) : StrLen(raw[i].text) > Threshold(raw[i].source)

\* the rows of a sheet the collector keeps
RECURSIVE SheetKept(_)
SheetKept(evs) ==
    IF evs = <<>> THEN <<>>
    ELSE (IF StrLen(Head(evs).text) >= MinLen("gsheet") \/ Head(evs).sym # ""
          THEN <<Head(evs).text>> ELSE <<>>) \o SheetKept(Tail(evs))

\* C10 as amended: the text of a report of dreambank has at least 400
\* characters, of rss and reddit at least 160, of sddb, dryad, donders and hf
\* more than 120, of the owner site more than 300; a candidate below these
\* lengths never reaches the list.  A sheet row is discarded exactly when its
\* text has fewer than 60 characters and its symbol column is empty, so a
\* sheet row with a symbol is collected whatever the length of its text.
C10_TextAtLeastMinimum ==
    /\ \A i \in 1..Len(raw) :
          raw[i].source # "gsheet" => StrLen(raw[i].text) >= MinLen(raw[i].source)
    /\ (lastcall # NoCall /\ lastcall.name = "gsheet" /\ pc # "crashed") =>
          LET new == SubSeq(raw, Len(lastcall.before) + 1, Len(raw))
          IN  [i \in 1..Len(new) |-> new[i].text]
                 = SheetKept(CutEvs(lastcall.resp.evs))

\* a sheet with a short row without a symbol, discarded, and an empty text
\* with a symbol, collected
C10_Witness ==
    /\ lastcall # NoCall
    /\ lastcall.name = "gsheet"
    /\ \E i \in 1..Len(lastcall.resp.evs) :
          LET e == lastcall.resp.evs[i]
          IN  e # RaiseEv /\ e.sym = "" /\ StrLen(e.text) = 59
    /\ \E i \in 1..Len(raw) : raw[i].source = "gsheet" /\ raw[i].text = <<>>
    /\ \A i \in 1..Len(raw) : StrLen(raw[i].text) # 59

\* C11: in every collector call, each network request is issued with the
\* timeout TIMEOUT and comes right after a pause of RATE seconds.
C11_DelayAndTimeout ==
    lastcall # NoCall =>
        \A i \in 1..Len(lastcall.net) :
            lastcall.net[i].op = "request" =>
                /\ lastcall.net[i].timeout = TIMEOUT
                /\ i > 1
                /\ lastcall.net[i - 1] = Sleep(RATE)

\* C12: when OWNER_APPROVED is not "1", a call of the owner-site collector
\* makes no network operation and adds no report, whatever the owner's site
\* would send, and no report of the run comes from the owner's site.
C12_OwnerNeedsApproval ==
    ~env.OWNER_APPROVED =>
        /\ (lastcall # NoCall /\ lastcall.name = "owner") =>
              /\ lastcall.net = <<>>
              /\ raw = lastcall.before
              /\ exit_code = -1
        /\ \A i \in 1..Len(raw) : raw[i].source # "owner"
        /\ \A i \in 1..Len(curated) : \A j \in 1..Len(curated[i].sources) :
              curated[i].sources[j].url # Url("owner/magikum-sonnik", 1)

\* the owner's site enabled in the configuration and ready to send a page
\* long enough to be kept, the flag not set
C12_Witness ==
    /\ ~env.OWNER_APPROVED
    /\ cfg["magickum_owner"] = 1
    /\ lastcall # NoCall
    /\ lastcall.name = "owner"
    /\ lastcall.resp.ok
    /\ \E i \in 1..Len(lastcall.resp.evs) :
          /\ lastcall.resp.evs[i] # RaiseEv
          /\ StrLen(lastcall.resp.evs[i].text) > 300

\* the URLs the crawl queued through link discovery: all of q but the first
Discovered == {queue[i] : i \in 2..Len(queue)}

\* C13: every URL queued through link discovery has the registrable domain
\* of the configured domain and a path that begins with /magikum-sonnik, and
\* every URL fetched is the start URL or such a URL.
C13_DiscoveryInScope ==
    /\ \A u \in Discovered :
          /\ registered_domain(u.host) = registered_domain(OwnerDomain)
          /\ u.path # <<>>
          /\ u.path[1] = "/magikum-sonnik"
    /\ \A i \in 1..Len(fetched) :
          \/ fetched[i] = StartUrl
          \/ (/\ registered_domain(fetched[i].host) = registered_domain(OwnerDomain)
              /\ fetched[i].path # <<>>
              /\ fetched[i].path[1] = "/magikum-sonnik")

\* C17: the crawl returns, and no URL is fetched twice.
C17_CrawlTerminates ==
    /\ [](\A i, j \in 1..Len(fetched) : i # j => fetched[i] # fetched[j])
    /\ <>(opc = "returned")

\* a crawl that has returned, on a site where two pages link to each other
\* and a URL was queued twice
C17_Witness ==
    /\ opc = "returned"
    /\ \E i, j \in 1..Len(queue) : i # j /\ queue[i] = queue[j]
    /\ \E i \in 1..Len(site[SubPage]) : site[SubPage][i] = StartUrl
    /\ \E i \in 1..Len(site[StartUrl]) : site[StartUrl][i] = SubPage
    /\ Len(fetched) >= 2

\* C14: when something is wrong with the configuration, no collector is
\* ever invoked and the run never gets as far as the end of collection: it
\* ends with a fatal error first.
C14_ConfigFailureFatalFirst ==
    /\ \A k \in DOMAIN calls : calls[k] = 0
    /\ pc \in {"load", "crashed"} \cup CollectionPcs
    /\ pc = "crashed" => exit_code = 1

\* the records of a response that carry a title of their own: the pages,
\* entries and posts, and the lines of a JSON file
RECURSIVE UnitEvs(_)
UnitEvs(us) ==
    IF us = <<>> THEN <<>>
    ELSE (IF Head(us).k \in {"jsonl", "jsondoc"} THEN Head(us).evs ELSE <<>>)
         \o UnitEvs(Tail(us))

TitledRecords(call) ==
    IF call.name \in {"dreambank", "rss", "reddit", "owner"} THEN call.resp.evs
    ELSE IF call.name = "sddb" THEN UnitEvs(call.resp.units)
    ELSE <<>>

\* the first 120 characters of a title followed by the ellipsis
Cut120(title) == Concat(Take(title, 120), <<Run(Ellipsis, 1)>>)

\* C15: a report whose title at the provider has more than 120 characters
\* carries, as its title and as the title of each source made from it, the
\* first 120 characters of that title followed by an ellipsis.
C15_LongTitleCut ==
    /\ lastcall # NoCall =>
          \A i \in (Len(lastcall.before) + 1)..Len(raw) :
             \A j \in 1..Len(TitledRecords(lastcall)) :
                LET e == TitledRecords(lastcall)[j]
                IN  (/\ e # RaiseEv
                     /\ StrLen(e.title) > 120
                     /\ raw[i].text = Take(Strip(e.text), 1200))
                    => raw[i].title = Cut120(e.title)
    /\ \A i \in 1..Len(curated) : \A j \in 1..Len(curated[i].sources) :
          StrLen(curated[i].sources[j].title) <= 121

\* what a reader gets from the line-delimited file, one json.loads per line,
\* and from the array file, one json.load, which needs the whole array
ReadLines(f) ==
    IF f.exists /\ ~f.open /\ ~f.close
    THEN [i \in 1..Len(f.recs) |-> f.recs[i].rec] ELSE <<"unreadable">>
ReadArray(f) ==
    IF f.exists /\ f.open /\ f.close
    THEN [i \in 1..Len(f.recs) |-> f.recs[i].rec] ELSE <<"unreadable">>

\* C16: after a successful run the two files read back as the same sequence
\* of records, with the same fields and values: the sorted entries of the run.
C16_SameRecords ==
    pc = "done" =>
        /\ exit_code = 0
        /\ ReadLines(files["jsonl"]) = ReadArray(files["json"])
        /\ ReadLines(files["jsonl"]) = curated
        /\ \A i \in 1..Len(curated) :
              /\ files["jsonl"].recs[i].sep = "spaced"
              /\ files["json"].recs[i].sep = "compact"

\* a successful run that wrote two entries over the files of an earlier run
C16_Witness ==
    /\ pc = "done"
    /\ prev = OldFiles
    /\ Len(files["json"].recs) = 2
    /\ files["json"].recs[1].rec # files["json"].recs[2].rec

=============================================================================
